---- MODULE Spec2Model ----
(***************************************************************************)
(* A model of the contract violation reporting pipeline of CONTRACT:       *)
(* the error taxonomy (contract_errors.h), the failure handler            *)
(* _contract_fail (contract.c) and its caller demo_contracts               *)
(* (demo_contract.h).                                                      *)
(*                                                                         *)
(* contract.h (the check macros) and the body of contract_strerror are not *)
(* among the source files; they are modelled from the specification and    *)
(* marked so where they are defined.                                       *)
(***************************************************************************)
EXTENDS Integers, Sequences, FiniteSets, TLC

VARIABLES
  proc,       \* "running" | "aborted" (abort() raised SIGABRT) | "crashed" (a fault)
  endedBy,    \* the thread whose step ended the process, 0 while it runs
  prog,       \* the function each thread executes: "demo" | "caller"
  ip,         \* each thread's position in its function (index of the next statement)
  pc,         \* each thread's position in _contract_fail, "run" outside it
  errno,      \* each thread's last-error value (thread-local)
  failErrno,  \* history: errno of the thread at the instant its check failed
  now,        \* _contract_fail's local `now`
  filename,   \* _contract_fail's local `filename`
  tm_info,    \* _contract_fail's local `tm_info`: "NULL" | "static" | "unset"
  static_tm,  \* the one struct tm localtime() fills and returns a pointer to
  datetime,   \* _contract_fail's local `datetime[20]`
  wrote,      \* what the thread's fprintf did: "no" (not executed) | "ok" | "partial" | "failed"
  stderr,     \* the diagnostic stream: the sequence of writes it has received
  stdout,     \* the lines printed by printf
  code_in,    \* the argument of a contract_strerror call under test
  phrase_out, \* its result
  path_in,    \* a source path under test
  base_out    \* its reduction by the handler's path code

vars == <<proc, endedBy, prog, ip, pc, errno, failErrno, now, filename, tm_info,
          static_tm, datetime, wrote, stderr, stdout,
          code_in, phrase_out, path_in, base_out>>

handlerVars == <<proc, endedBy, prog, ip, pc, errno, failErrno, now, filename, tm_info,
                 static_tm, datetime, wrote, stderr, stdout>>

pureVars == <<code_in, phrase_out, path_in, base_out>>

(***************************************************************************)
(* Bounds of the model.                                                    *)
(***************************************************************************)
\* Error codes are looked up from CodeMargin below 0 to CodeMargin above the
\* largest defined code.
CodeMargin == 3

\* Source paths under test have at most MaxPathLen characters.
MaxPathLen == 4

\* The other caller makes CallerChecks checks.
CallerChecks == 2

\* The threads of the process.
Threads == {1, 2}

(***************************************************************************)
(* Error taxonomy: contract_errors.h                                       *)
(***************************************************************************)
\* The largest enumerator of posix_error_t (POSIX_ENOTRECOVERABLE).
MaxDefinedCode == 131

\* A plausible slip: the enumeration taken to be dense from 0 to its maximum.
posix_error_dense == 0..MaxDefinedCode

\* The numeric values of the enumerators of posix_error_t.  POSIX_EWOULDBLOCK
\* aliases POSIX_EAGAIN (11) and POSIX_EOPNOTSUPP aliases POSIX_ENOTSUP (95).
posix_error_t ==
  (0..14) \cup (16..27) \cup (30..36) \cup {39, 40, 43}
  \cup {62, 67, 71, 75, 77, 84}
  \cup {90, 91, 93, 95, 100, 101, 110, 113, 114, 115, 116}
  \cup {125, 130, 131}

\* The text the enumeration documents for each numeric value; for a value with
\* two enumerators, the first one's.  "" stands for no entry (a null pointer).
error_strings(err) ==
  CASE err = 0 -> "No error; operation succeeded"
    [] err = 1 -> "Operation not permitted"
    [] err = 2 -> "No such file or directory"
    [] err = 3 -> "No such process"
    [] err = 4 -> "Interrupted system call"
    [] err = 5 -> "Input/output error"
    [] err = 6 -> "No such device or address"
    [] err = 7 -> "Argument list too long"
    [] err = 8 -> "Executable file format error"
    [] err = 9 -> "Bad file descriptor"
    [] err = 10 -> "No child processes"
    [] err = 11 -> "Resource unavailable, try again"
    [] err = 12 -> "Out of memory"
    [] err = 13 -> "Permission denied"
    [] err = 14 -> "Bad address"
    [] err = 16 -> "Device or resource busy"
    [] err = 17 -> "File exists"
    [] err = 18 -> "Cross-device link"
    [] err = 19 -> "No such device"
    [] err = 20 -> "Not a directory"
    [] err = 21 -> "Is a directory"
    [] err = 22 -> "Invalid argument"
    [] err = 23 -> "Too many files open in system"
    [] err = 24 -> "Too many open files"
    [] err = 25 -> "Inappropriate I/O control operation"
    [] err = 26 -> "Text file busy"
    [] err = 27 -> "File too large"
    [] err = 30 -> "Read-only file system"
    [] err = 31 -> "Too many links"
    [] err = 32 -> "Broken pipe"
    [] err = 33 -> "Numerical argument out of domain"
    [] err = 34 -> "Result too large"
    [] err = 35 -> "Resource deadlock would occur"
    [] err = 36 -> "File name too long"
    [] err = 39 -> "Directory not empty"
    [] err = 40 -> "Too many levels of symbolic links"
    [] err = 43 -> "Identifier removed"
    [] err = 62 -> "Timer expired"
    [] err = 67 -> "Link has been severed"
    [] err = 71 -> "Protocol error"
    [] err = 75 -> "Value too large to be stored in data type"
    [] err = 77 -> "No locks available"
    [] err = 84 -> "Illegal byte sequence"
    [] err = 90 -> "Message too long"
    [] err = 91 -> "Protocol wrong type for socket"
    [] err = 93 -> "Protocol not supported"
    [] err = 95 -> "Operation not supported"
    [] err = 100 -> "Network is down"
    [] err = 101 -> "Network is unreachable"
    [] err = 110 -> "Connection timed out"
    [] err = 113 -> "No route to host"
    [] err = 114 -> "Connection already in progress"
    [] err = 115 -> "Operation in progress"
    [] err = 116 -> "Stale file handle"
    [] err = 125 -> "Operation canceled"
    [] err = 130 -> "Previous owner died"
    [] err = 131 -> "State not recoverable"
    [] OTHER -> ""

\* The phrase for a code that is not an enumerator of posix_error_t.
UnknownError == "Unknown error"

\* contract_strerror is declared in contract_errors.h:106; its body is not among
\* the source files.  Modelled from the specification (4.1): a table lookup for a
\* defined code, the fallback phrase for every other integer.
contract_strerror(err) ==
  IF err \in posix_error_t THEN error_strings(err) ELSE UnknownError

(***************************************************************************)
(* Strings: a path is a sequence of characters, so that strrchr can be     *)
(* modelled by what it does.                                               *)
(***************************************************************************)
RECURSIVE Join(_)
Join(s) == IF s = <<>> THEN "" ELSE Head(s) \o Join(Tail(s))

\* strrchr(s, ch): the index of the last occurrence of ch in s, 0 for a null pointer.
strrchr(s, ch) ==
  LET hits == {i \in 1..Len(s) : s[i] = ch}
  IN  IF hits = {} THEN 0 ELSE CHOOSE i \in hits : \A j \in hits : j <= i

\* contract.c:14-19: the backslash is searched first, the forward slash only when
\* the path holds no backslash at all.
Basename(file) ==
  LET bs == strrchr(file, "\\")
      last_slash == IF bs = 0 THEN strrchr(file, "/") ELSE bs
  IN  IF last_slash # 0 THEN SubSeq(file, last_slash + 1, Len(file)) ELSE file


(***************************************************************************)
(* The callers: demo_contracts (demo_contract.h) and a second caller whose *)
(* conditions are inputs.                                                  *)
(***************************************************************************)
\* demo_contract.h:45-48: the dummy values the demo's conditions are built from.
zero == 0
one == 1
ptr == 0
val == 150

\* __FILE__ of demo_contracts, as a sequence of path components and separators.
DemoFile == <<"src", "/", "CONTRACT", "/", "demo_contract.h">>

\* demo_contract.h:35-135, statement by statement.  A check's cond is the value
\* of its condition argument (C truth: non-zero), its text the argument as
\* written; ensure_in_range(v, lo, hi, msg) checks lo <= v <= hi.
DemoProgram ==
  <<
    [op |-> "print", text |-> "DESIGN-BY-CONTRACT MACROS DEMO", cond |-> FALSE, msg |-> "", line |-> 35],
    [op |-> "print", text |-> "Each group will fail and print error", cond |-> FALSE, msg |-> "", line |-> 36],
    [op |-> "print", text |-> "1. DEFAULT CONTRACTS require, ensure, invariant", cond |-> FALSE, msg |-> "", line |-> 50],
    [op |-> "require", text |-> "zero", cond |-> zero # 0, msg |-> "General pre-condition failed", line |-> 51],
    [op |-> "ensure", text |-> "zero", cond |-> zero # 0, msg |-> "General post-condition failed", line |-> 52],
    [op |-> "invariant", text |-> "zero", cond |-> zero # 0, msg |-> "Object state invariant violated", line |-> 53],
    [op |-> "pause", text |-> ">>> Press Enter to continue...", cond |-> FALSE, msg |-> "", line |-> 55],
    [op |-> "print", text |-> "2. MEMORY & ADDRESS CONTRACTS", cond |-> FALSE, msg |-> "", line |-> 57],
    [op |-> "require_address", text |-> "ptr == 0", cond |-> ptr = 0, msg |-> "Null pointer not allowed", line |-> 58],
    [op |-> "require_mem", text |-> "zero", cond |-> zero # 0, msg |-> "Memory allocation failed", line |-> 59],
    [op |-> "ensure_address", text |-> "ptr", cond |-> ptr # 0, msg |-> "Function returned null pointer", line |-> 60],
    [op |-> "require_aligned", text |-> "zero", cond |-> zero # 0, msg |-> "Pointer not properly aligned", line |-> 61],
    [op |-> "pause", text |-> ">>> Press Enter to continue...", cond |-> FALSE, msg |-> "", line |-> 63],
    [op |-> "print", text |-> "3. MATHEMATICAL & RANGE CONTRACTS", cond |-> FALSE, msg |-> "", line |-> 65],
    [op |-> "require_domain", text |-> "zero", cond |-> zero # 0, msg |-> "Argument outside mathematical domain (e.g., sqrt(-1))", line |-> 66],
    [op |-> "require_range", text |-> "zero", cond |-> zero # 0, msg |-> "Result exceeds representable range", line |-> 67],
    [op |-> "ensure_in_range", text |-> "val, 0, 100", cond |-> 0 <= val /\ val <= 100, msg |-> "Value out of valid bounds [0..100]", line |-> 68],
    [op |-> "ensure_no_overflow", text |-> "32767", cond |-> 32767 # 0, msg |-> "Computation hit INT_MAX", line |-> 69],
    [op |-> "ensure_fail", text |-> "one", cond |-> one # 0, msg |-> "Operation unexpectedly succeeded", line |-> 70],
    [op |-> "pause", text |-> ">>> Press Enter to continue...", cond |-> FALSE, msg |-> "", line |-> 72],
    [op |-> "print", text |-> "4. FILESYSTEM CONTRACTS", cond |-> FALSE, msg |-> "", line |-> 74],
    [op |-> "require_fd", text |-> "zero", cond |-> zero # 0, msg |-> "Invalid file descriptor", line |-> 76],
    [op |-> "require_exists", text |-> "zero", cond |-> zero # 0, msg |-> "Required file or path does not exist", line |-> 77],
    [op |-> "require_is_dir", text |-> "zero", cond |-> zero # 0, msg |-> "Path is not a directory", line |-> 78],
    [op |-> "require_not_dir", text |-> "one", cond |-> one # 0, msg |-> "Path must not be a directory", line |-> 79],
    [op |-> "require_empty_dir", text |-> "zero", cond |-> zero # 0, msg |-> "Directory is not empty", line |-> 80],
    [op |-> "require_writable", text |-> "zero", cond |-> zero # 0, msg |-> "Filesystem is read-only", line |-> 81],
    [op |-> "require_file_size", text |-> "zero", cond |-> zero # 0, msg |-> "File exceeds maximum size", line |-> 82],
    [op |-> "require_name_length", text |-> "zero", cond |-> zero # 0, msg |-> "Filename too long", line |-> 83],
    [op |-> "require_same_device", text |-> "zero", cond |-> zero # 0, msg |-> "Cross-device link not allowed", line |-> 84],
    [op |-> "require_not_busy", text |-> "zero", cond |-> zero # 0, msg |-> "Resource is busy or locked", line |-> 85],
    [op |-> "require_fresh_handle", text |-> "zero", cond |-> zero # 0, msg |-> "File handle is stale", line |-> 86],
    [op |-> "require_pipe_ready", text |-> "zero", cond |-> zero # 0, msg |-> "Pipe is broken", line |-> 87],
    [op |-> "require_regular_file", text |-> "zero", cond |-> zero # 0, msg |-> "Not a regular file", line |-> 88],
    [op |-> "require_not_fifo", text |-> "one", cond |-> one # 0, msg |-> "Operation not allowed on pipe", line |-> 89],
    [op |-> "pause", text |-> ">>> Press Enter to continue...", cond |-> FALSE, msg |-> "", line |-> 91],
    [op |-> "print", text |-> "5. PROCESS & SYSTEM STATE CONTRACTS", cond |-> FALSE, msg |-> "", line |-> 93],
    [op |-> "require_process", text |-> "zero", cond |-> zero # 0, msg |-> "Target process does not exist", line |-> 94],
    [op |-> "require_no_deadlock", text |-> "zero", cond |-> zero # 0, msg |-> "Deadlock condition detected", line |-> 95],
    [op |-> "require_not_canceled", text |-> "zero", cond |-> zero # 0, msg |-> "Operation was canceled", line |-> 96],
    [op |-> "require_id_valid", text |-> "zero", cond |-> zero # 0, msg |-> "Shared memory or semaphore ID invalid", line |-> 97],
    [op |-> "ensure_resource_available", text |-> "zero", cond |-> zero # 0, msg |-> "Resource unavailable", line |-> 99],
    [op |-> "ensure_mutex_consistent", text |-> "zero", cond |-> zero # 0, msg |-> "Mutex in inconsistent state", line |-> 100],
    [op |-> "pause", text |-> ">>> Press Enter to continue...", cond |-> FALSE, msg |-> "", line |-> 102],
    [op |-> "print", text |-> "6. NETWORK & COMMUNICATION CONTRACTS", cond |-> FALSE, msg |-> "", line |-> 104],
    [op |-> "require_network_up", text |-> "zero", cond |-> zero # 0, msg |-> "Network is down", line |-> 105],
    [op |-> "require_host_reachable", text |-> "zero", cond |-> zero # 0, msg |-> "Host is unreachable", line |-> 106],
    [op |-> "require_no_timeout", text |-> "zero", cond |-> zero # 0, msg |-> "Operation timed out", line |-> 107],
    [op |-> "require_not_already_connecting", text |-> "one", cond |-> one # 0, msg |-> "Connection already in progress", line |-> 108],
    [op |-> "require_proto_available", text |-> "zero", cond |-> zero # 0, msg |-> "Protocol not supported", line |-> 109],
    [op |-> "pause", text |-> ">>> Press Enter to continue...", cond |-> FALSE, msg |-> "", line |-> 111],
    [op |-> "print", text |-> "7. DATA & ENCODING CONTRACTS", cond |-> FALSE, msg |-> "", line |-> 113],
    [op |-> "require_valid_encoding", text |-> "zero", cond |-> zero # 0, msg |-> "Input contains invalid byte sequence", line |-> 114],
    [op |-> "ensure_valid_encoding", text |-> "zero", cond |-> zero # 0, msg |-> "Output contains invalid encoding", line |-> 115],
    [op |-> "pause", text |-> ">>> Press Enter to continue...", cond |-> FALSE, msg |-> "", line |-> 117],
    [op |-> "print", text |-> "8. PERMISSION & ACCESS CONTRACTS", cond |-> FALSE, msg |-> "", line |-> 119],
    [op |-> "require_permission", text |-> "zero", cond |-> zero # 0, msg |-> "Insufficient privileges", line |-> 120],
    [op |-> "require_io_success", text |-> "zero", cond |-> zero # 0, msg |-> "I/O operation failed", line |-> 121],
    [op |-> "require_device", text |-> "zero", cond |-> zero # 0, msg |-> "Device not found", line |-> 122],
    [op |-> "pause", text |-> ">>> Press Enter to continue...", cond |-> FALSE, msg |-> "", line |-> 124],
    [op |-> "print", text |-> "9. MISCELLANEOUS & CUSTOM GUARANTEES", cond |-> FALSE, msg |-> "", line |-> 126],
    [op |-> "require_supported", text |-> "zero", cond |-> zero # 0, msg |-> "Feature not supported", line |-> 127],
    [op |-> "require_recoverable", text |-> "zero", cond |-> zero # 0, msg |-> "State is unrecoverable", line |-> 128],
    [op |-> "require_owner_alive", text |-> "zero", cond |-> zero # 0, msg |-> "Mutex owner died", line |-> 129],
    [op |-> "pause", text |-> ">>> Press Enter to continue...", cond |-> FALSE, msg |-> "", line |-> 131],
    [op |-> "print", text |-> "DEMO COMPLETE.", cond |-> FALSE, msg |-> "", line |-> 133],
    [op |-> "print", text |-> "All contract macros have been exercised.", cond |-> FALSE, msg |-> "", line |-> 134],
    [op |-> "print", text |-> "Now you can enable 'abort()' in _contract_fail to terminate on failure.", cond |-> FALSE, msg |-> "", line |-> 135]
  >>

\* Another caller of the check vocabulary: a precondition and a postcondition
\* in turn, on successive lines, whose conditions are decided at run time, in
\* a file whose path mixes both separators.
CallerFile == <<"C:", "\\", "job", "/", "caller.c">>

CallerProgram ==
  [i \in 1..CallerChecks |->
     IF i % 2 = 1
       THEN [op |-> "require", text |-> "n > 0", cond |-> TRUE,
             msg |-> "n must be positive", line |-> 10 + i]
       ELSE [op |-> "ensure", text |-> "r != 0", cond |-> TRUE,
             msg |-> "result must be set", line |-> 10 + i]]

Programs == {"demo", "caller"}

Program(p) == IF p = "demo" THEN DemoProgram ELSE CallerProgram

FileOf(p) == IF p = "demo" THEN DemoFile ELSE CallerFile

\* The statement thread t is at (defined while ip[t] is inside its function).
Stmt(t) == Program(prog[t])[ip[t]]

AtStmt(t) == proc = "running" /\ pc[t] = "run" /\ ip[t] <= Len(Program(prog[t]))

IsCheck(s) == s.op \notin {"print", "pause"}

\* The values the condition of the check at hand can take: the demo's are
\* fixed by its dummy values, the other caller's are inputs.
CondValues(t) == IF prog[t] = "demo" THEN {Stmt(t).cond} ELSE BOOLEAN

(***************************************************************************)
(* The environment of the failure handler.                                 *)
(***************************************************************************)
\* The last-error values a thread may hold when it reaches a check.
LastErrors == {0, 2}

\* time(NULL): the calendar time, or (time_t)-1 when the calendar time is not
\* available.  A calendar time is given by its year and stands for the first
\* second of that year.
TimeResults == {-1, 2026, 10000}

\* No broken-down time: the static struct tm before localtime filled it.
NoTm == [year |-> 0, mon |-> 0, mday |-> 0, hour |-> 0, min |-> 0, sec |-> 0]

\* The broken-down time of a time value; (time_t)-1 is the last second of 1969.
LocalTm(n) ==
  IF n = -1
    THEN [year |-> 1969, mon |-> 12, mday |-> 31, hour |-> 23, min |-> 59, sec |-> 59]
    ELSE [year |-> n, mon |-> 1, mday |-> 1, hour |-> 0, min |-> 0, sec |-> 0]

\* localtime(&now): the broken-down time it stores in its static struct tm, or
\* NoTm for a null pointer.  (time_t)-1 converts where negative times are
\* accepted and gives no result where they are not.
LocaltimeResults(n) == IF n = -1 THEN {NoTm, LocalTm(n)} ELSE {LocalTm(n)}

\* errno after localtime: EOVERFLOW (75) when it fails; when it succeeds errno is
\* left alone or, where the time zone data could not be opened, left at ENOENT (2).
LocaltimeErrnos(e, result) == IF result = NoTm THEN {75} ELSE {e, 2}

\* contract.c:13: char datetime[20].
DatetimeSize == 20

\* %m, %d, %H, %M, %S: two digits.
TwoDigits(n) == IF n < 10 THEN "0" \o ToString(n) ELSE ToString(n)

\* What "%Y-%m-%d %H:%M:%S" produces for a broken-down time.
Timestamp(tm) ==
  ToString(tm.year) \o "-" \o TwoDigits(tm.mon) \o "-" \o TwoDigits(tm.mday) \o " "
    \o TwoDigits(tm.hour) \o ":" \o TwoDigits(tm.min) \o ":" \o TwoDigits(tm.sec)

\* The contents of datetime when strftime did not fill it.
Indeterminate == "<indeterminate>"

\* What fprintf can do with the line: write all of it, fail having written
\* nothing, or fail having written a part.
WriteResults == {"ok", "failed", "partial"}

\* Where a partial write of a line of n pieces stops: just before its newline.
PartialCuts(n) == {n - 1}

(***************************************************************************)
(* The diagnostic line: contract.c:24-31                                   *)
(***************************************************************************)
\* A plausible slip: the condition text and the message in each other's place.
LineFieldsSwapped(dt, fn, ln, cond, code, phrase, msg) ==
  <<"[", dt, "] ", fn, ":", ToString(ln), "|", msg, "|",
    ToString(code), "(", phrase, ")|", cond, "\n">>

\* "[%s] %s:%d|%s|%d(%s)|%s\n" with its arguments in the order fprintf is given
\* them, piece by piece.
LineFields(dt, fn, ln, cond, code, phrase, msg) ==
  <<"[", dt, "] ", fn, ":", ToString(ln), "|", cond, "|",
    ToString(code), "(", phrase, ")|", msg, "\n">>

\* A plausible slip: the handler's arguments kept in storage all threads share,
\* so that a thread formats the arguments of another thread's failed check.
LineOfShared(t) ==
  LET others == {u \in Threads : u # t /\ pc[u] \in {"time", "strrchr", "localtime", "strftime", "fprintf", "abort"}}
      u == IF others = {} THEN t ELSE CHOOSE v \in others : TRUE
  IN  LineFields(datetime[t], Join(filename[u]), Stmt(u).line, Stmt(u).text,
                 errno[t], contract_strerror(errno[t]), Stmt(u).msg)

\* The pieces of the line thread t's fprintf call formats: errno is read here,
\* as an argument of the call.
LineOf(t) ==
  LineFields(datetime[t], Join(filename[t]), Stmt(t).line, Stmt(t).text,
             errno[t], contract_strerror(errno[t]), Stmt(t).msg)

(***************************************************************************)
(* Initial state                                                           *)
(***************************************************************************)
NoPath == <<"<unset>">>

NoPhrase == "<unset>"

InitPure ==
  /\ code_in = 0
  /\ phrase_out = NoPhrase
  /\ path_in = <<>>
  /\ base_out = NoPath

InitHandler ==
  /\ proc = "running"
  /\ endedBy = 0
  /\ ip = [t \in Threads |-> 1]
  /\ pc = [t \in Threads |-> "run"]
  /\ failErrno = [t \in Threads |-> 0]
  /\ now = [t \in Threads |-> 0]
  /\ filename = [t \in Threads |-> <<>>]
  /\ tm_info = [t \in Threads |-> "unset"]
  /\ static_tm = NoTm
  /\ datetime = [t \in Threads |-> Indeterminate]
  /\ wrote = [t \in Threads |-> "no"]
  /\ stderr = <<>>
  /\ stdout = <<>>

Init ==
  /\ InitHandler
  /\ prog \in {p \in [Threads -> Programs] : \A t \in Threads : t # 1 => p[t] = "caller"}
  /\ errno \in [Threads -> LastErrors]
  /\ InitPure

(***************************************************************************)
(* The check vocabulary (contract.h, not among the source files): every    *)
(* check is the same primitive, modelled from the specification (4.2).     *)
(***************************************************************************)
\* A plausible slip: a check that reports even when its condition holds.
CheckPassesNoisy(t) ==
  /\ AtStmt(t) /\ IsCheck(Stmt(t))
  /\ TRUE \in CondValues(t)
  /\ ip' = [ip EXCEPT ![t] = @ + 1]
  /\ stderr' = Append(stderr, [by |-> t, text |-> Stmt(t).msg])
  /\ errno' = [errno EXCEPT ![t] = 0]
  /\ UNCHANGED <<proc, endedBy, prog, pc, failErrno, now, filename, tm_info,
                 static_tm, datetime, wrote, stdout>>
  /\ UNCHANGED pureVars

\* The condition holds: the check returns and the caller goes on.
CheckPasses(t) ==
  /\ AtStmt(t) /\ IsCheck(Stmt(t))
  /\ TRUE \in CondValues(t)
  /\ ip' = [ip EXCEPT ![t] = @ + 1]
  /\ UNCHANGED <<proc, endedBy, prog, pc, errno, failErrno, now, filename, tm_info,
                 static_tm, datetime, wrote, stderr, stdout>>
  /\ UNCHANGED pureVars

\* The condition is false: _contract_fail(#cond, msg, __FILE__, __LINE__) is
\* entered (contract.c:5-10).
CheckFails(t) ==
  /\ AtStmt(t) /\ IsCheck(Stmt(t))
  /\ FALSE \in CondValues(t)
  /\ pc' = [pc EXCEPT ![t] = "time"]
  /\ failErrno' = [failErrno EXCEPT ![t] = errno[t]]
  /\ UNCHANGED <<proc, endedBy, prog, ip, errno, now, filename, tm_info,
                 static_tm, datetime, wrote, stderr, stdout>>
  /\ UNCHANGED pureVars

(***************************************************************************)
(* demo_contracts: its console statements and its return                   *)
(***************************************************************************)
\* printf of a line; PAUSE() prints its prompt, reads up to a newline and
\* prints an empty line (demo_contract.h:38-42).
ConsoleIO(t) ==
  /\ AtStmt(t) /\ ~IsCheck(Stmt(t))
  /\ stdout' = IF Stmt(t).op = "pause"
                 THEN stdout \o <<Stmt(t).text, "">>
                 ELSE Append(stdout, Stmt(t).text)
  /\ ip' = [ip EXCEPT ![t] = @ + 1]
  /\ UNCHANGED <<proc, endedBy, prog, pc, errno, failErrno, now, filename, tm_info,
                 static_tm, datetime, wrote, stderr>>
  /\ UNCHANGED pureVars

\* The function returns after its last statement.
Return(t) ==
  /\ proc = "running" /\ pc[t] = "run"
  /\ ip[t] > Len(Program(prog[t]))
  /\ pc' = [pc EXCEPT ![t] = "returned"]
  /\ UNCHANGED <<proc, endedBy, prog, ip, errno, failErrno, now, filename, tm_info,
                 static_tm, datetime, wrote, stderr, stdout>>
  /\ UNCHANGED pureVars

(***************************************************************************)
(* _contract_fail, statement by statement: contract.c:5-33                 *)
(***************************************************************************)
InHandler(t) == pc[t] \in {"time", "strrchr", "localtime", "strftime", "fprintf", "abort"}

\* contract.c:11: time_t now = time(NULL);
Time(t) ==
  /\ proc = "running" /\ pc[t] = "time"
  /\ \E n \in TimeResults : now' = [now EXCEPT ![t] = n]
  /\ pc' = [pc EXCEPT ![t] = "strrchr"]
  /\ UNCHANGED <<proc, endedBy, prog, ip, errno, failErrno, filename, tm_info,
                 static_tm, datetime, wrote, stderr, stdout>>
  /\ UNCHANGED pureVars

\* contract.c:14-19: filename = the part of file after the separator found.
Strrchr(t) ==
  /\ proc = "running" /\ pc[t] = "strrchr"
  /\ filename' = [filename EXCEPT ![t] = Basename(FileOf(prog[t]))]
  /\ pc' = [pc EXCEPT ![t] = "localtime"]
  /\ UNCHANGED <<proc, endedBy, prog, ip, errno, failErrno, now, tm_info,
                 static_tm, datetime, wrote, stderr, stdout>>
  /\ UNCHANGED pureVars

\* contract.c:21: tm_info = localtime(&now); the result lives in storage all
\* threads share, and the call may change the thread's errno.
Localtime(t) ==
  /\ proc = "running" /\ pc[t] = "localtime"
  /\ \E r \in LocaltimeResults(now[t]) :
       /\ tm_info' = [tm_info EXCEPT ![t] = IF r = NoTm THEN "NULL" ELSE "static"]
       /\ static_tm' = IF r = NoTm THEN static_tm ELSE r
       /\ \E e \in LocaltimeErrnos(errno[t], r) : errno' = [errno EXCEPT ![t] = e]
  /\ pc' = [pc EXCEPT ![t] = "strftime"]
  /\ UNCHANGED <<proc, endedBy, prog, ip, failErrno, now, filename,
                 datetime, wrote, stderr, stdout>>
  /\ UNCHANGED pureVars

\* contract.c:22: strftime(datetime, sizeof(datetime), "%Y-%m-%d %H:%M:%S", tm_info);
\* tm_info is not tested.  With a null tm_info the call is undefined: it faults,
\* or returns with datetime not filled.  strftime fills datetime only when the
\* result and its terminator fit in sizeof(datetime) bytes; otherwise the
\* contents of datetime are indeterminate.
Strftime(t) ==
  /\ proc = "running" /\ pc[t] = "strftime"
  /\ \/ /\ tm_info[t] = "NULL"
        /\ proc' = "crashed"
        /\ endedBy' = t
        /\ pc' = [pc EXCEPT ![t] = "faulted"]
        /\ UNCHANGED datetime
     \/ /\ tm_info[t] = "NULL"
        /\ datetime' = [datetime EXCEPT ![t] = Indeterminate]
        /\ pc' = [pc EXCEPT ![t] = "fprintf"]
        /\ UNCHANGED <<proc, endedBy>>
     \/ /\ tm_info[t] = "static"
        /\ datetime' = [datetime EXCEPT ![t] =
                          IF Len(Timestamp(static_tm)) < DatetimeSize
                            THEN Timestamp(static_tm) ELSE Indeterminate]
        /\ pc' = [pc EXCEPT ![t] = "fprintf"]
        /\ UNCHANGED <<proc, endedBy>>
  /\ UNCHANGED <<prog, ip, errno, failErrno, now, filename, tm_info,
                 static_tm, wrote, stderr, stdout>>
  /\ UNCHANGED pureVars

\* A plausible slip: the line left in a buffer that abort() never flushes.
FprintfBuffered(t) ==
  /\ proc = "running" /\ pc[t] = "fprintf"
  /\ \E w \in WriteResults : wrote' = [wrote EXCEPT ![t] = w]
  /\ pc' = [pc EXCEPT ![t] = "abort"]
  /\ UNCHANGED <<proc, endedBy, prog, ip, errno, failErrno, now, filename, tm_info,
                 static_tm, datetime, stderr, stdout>>
  /\ UNCHANGED pureVars

\* contract.c:24-31: fprintf(stderr, "[%s] %s:%d|%s|%d(%s)|%s\n", ...).  stderr is
\* not fully buffered and the line ends in a newline, so what fprintf writes is
\* in the stream when it returns; its result is not tested.
Fprintf(t) ==
  /\ proc = "running" /\ pc[t] = "fprintf"
  /\ \E w \in WriteResults :
       /\ wrote' = [wrote EXCEPT ![t] = w]
       /\ \/ /\ w = "ok"
             /\ stderr' = Append(stderr, [by |-> t, text |-> Join(LineOf(t))])
          \/ /\ w = "failed"
             /\ stderr' = stderr
          \/ /\ w = "partial"
             /\ \E k \in PartialCuts(Len(LineOf(t))) :
                  stderr' = Append(stderr, [by |-> t, text |-> Join(SubSeq(LineOf(t), 1, k))])
  /\ pc' = [pc EXCEPT ![t] = "abort"]
  /\ UNCHANGED <<proc, endedBy, prog, ip, errno, failErrno, now, filename, tm_info,
                 static_tm, datetime, stdout>>
  /\ UNCHANGED pureVars

\* A plausible slip: abort() disabled, so that the handler returns to the
\* statement after the failed check.
AbortReturns(t) ==
  /\ proc = "running" /\ pc[t] = "abort"
  /\ pc' = [pc EXCEPT ![t] = "run"]
  /\ ip' = [ip EXCEPT ![t] = @ + 1]
  /\ UNCHANGED <<proc, endedBy, prog, errno, failErrno, now, filename, tm_info,
                 static_tm, datetime, wrote, stderr, stdout>>
  /\ UNCHANGED pureVars

\* contract.c:32: abort(); the process ends with SIGABRT, and every thread with it.
Abort(t) ==
  /\ proc = "running" /\ pc[t] = "abort"
  /\ proc' = "aborted"
  /\ endedBy' = t
  /\ pc' = [pc EXCEPT ![t] = "aborted"]
  /\ UNCHANGED <<prog, ip, errno, failErrno, now, filename, tm_info,
                 static_tm, datetime, wrote, stderr, stdout>>
  /\ UNCHANGED pureVars

Next ==
  \E t \in Threads :
    \/ CheckPasses(t)
    \/ CheckFails(t)
    \/ ConsoleIO(t)
    \/ Return(t)
    \/ Time(t)
    \/ Strrchr(t)
    \/ Localtime(t)
    \/ Strftime(t)
    \/ Fprintf(t)
    \/ Abort(t)

Spec == Init /\ [][Next]_vars

\* The process keeps executing while one of its threads can take a step.
FairSpec == Spec /\ WF_vars(Next)

(***************************************************************************)
(* The pure functions on their own: contract_strerror over a range of      *)
(* codes, the path reduction over all short paths.                         *)
(***************************************************************************)
CodeRange == (0 - CodeMargin)..(MaxDefinedCode + CodeMargin)

PathChars == {"/", "\\", "a", "b"}

Paths == UNION {[1..n -> PathChars] : n \in 0..MaxPathLen}

IdleHandler ==
  /\ InitHandler
  /\ prog = [t \in Threads |-> "caller"]
  /\ errno = [t \in Threads |-> 0]

InitErr ==
  /\ IdleHandler
  /\ code_in \in CodeRange
  /\ phrase_out = NoPhrase
  /\ path_in = <<>>
  /\ base_out = NoPath

Lookup ==
  /\ phrase_out = NoPhrase
  /\ phrase_out' = contract_strerror(code_in)
  /\ UNCHANGED <<code_in, path_in, base_out>>
  /\ UNCHANGED handlerVars

NextErr == Lookup

SpecErr == InitErr /\ [][NextErr]_vars

InitPath ==
  /\ IdleHandler
  /\ path_in \in Paths
  /\ base_out = NoPath
  /\ code_in = 0
  /\ phrase_out = NoPhrase

Reduce ==
  /\ base_out = NoPath
  /\ base_out' = Basename(path_in)
  /\ UNCHANGED <<code_in, phrase_out, path_in>>
  /\ UNCHANGED handlerVars

NextPath == Reduce

SpecPath == InitPath /\ [][NextPath]_vars

(***************************************************************************)
(* Properties                                                              *)
(***************************************************************************)
\* The indices of the writes thread t made to the stream.
LinesBy(t) == {i \in 1..Len(stderr) : stderr[i].by = t}

\* Thread t's check has failed: it is in the handler or was ended in it.
Failed(t) == InHandler(t) \/ pc[t] \in {"aborted", "faulted"}

\* The line of section 6 of the specification,
\*   [timestamp] basename:line|condition-text|code(phrase)|message
\* and a newline, for given fields.
FormatOfSpec(ts, base, ln, cond, code, phrase, msg) ==
  "[" \o ts \o "] " \o base \o ":" \o ToString(ln) \o "|" \o cond \o "|"
      \o ToString(code) \o "(" \o phrase \o ")|" \o msg \o "\n"

\* That line for the failed check of thread t, with the code given.
DiagnosticOf(t, code) ==
  FormatOfSpec(datetime[t], Join(filename[t]), Stmt(t).line, Stmt(t).text,
               code, contract_strerror(code), Stmt(t).msg)

\* The stream holds, from thread t, the complete line of its failed check.
HasOwnLine(t) ==
  \E i \in LinesBy(t) : stderr[i].text = DiagnosticOf(t, errno[t])

\* The handler's preparatory steps all gave a result: localtime a broken-down
\* time, strftime a timestamp.
Prepared(t) == tm_info[t] = "static" /\ datetime[t] # Indeterminate

C2_TrueCheckNoEffect ==
  [][\A t \in Threads :
       (AtStmt(t) /\ IsCheck(Stmt(t)) /\ ip'[t] # ip[t]) =>
         /\ ip'[t] = ip[t] + 1
         /\ pc'[t] = "run"
         /\ stderr' = stderr
         /\ stdout' = stdout
         /\ errno' = errno
         /\ proc' = "running"]_vars

\* C2 witness: a thread with last error 2 has passed a check and goes on, with
\* nothing in the diagnostic stream.
C2_Witness ==
  \E t \in Threads :
    prog[t] = "caller" /\ ip[t] = 2 /\ pc[t] = "run" /\ errno[t] = 2 /\ stderr = <<>>

\* C3 (as stated): a failed check whose handler prepared its record and ran to
\* abort() has written exactly one diagnostic line, complete and in the fixed
\* format.
C3_ExactlyOneLine ==
  \A t \in Threads :
    (pc[t] = "aborted" /\ Prepared(t)) =>
      (Cardinality(LinesBy(t)) = 1 /\ HasOwnLine(t))

\* C3 (amended): a failed check writes at most one line; when its fprintf call
\* succeeds it has written exactly one, which is the line of the fixed format
\* with the condition text and the message verbatim; before the write, and when
\* the write fails outright, the stream holds nothing from it.
C3_OneLineWhenWritten ==
  \A t \in Threads :
    /\ Cardinality(LinesBy(t)) <= 1
    /\ wrote[t] = "ok" => (Cardinality(LinesBy(t)) = 1 /\ HasOwnLine(t))
    /\ wrote[t] \in {"no", "failed"} => LinesBy(t) = {}

\* C3 witness: a handler has written its line, with a timestamp of 2026, and
\* aborted.
C3_Witness ==
  \E t \in Threads :
    /\ pc[t] = "aborted" /\ wrote[t] = "ok" /\ HasOwnLine(t)
    /\ datetime[t] = "2026-01-01 00:00:00"

\* C4 (as stated): whenever a handler that prepared its record has initiated
\* termination, that thread's complete diagnostic is in the stream.
C4_DiagnosticBeforeTermination ==
  \A t \in Threads :
    (pc[t] \in {"abort", "aborted"} /\ Prepared(t)) => HasOwnLine(t)

\* C4 (amended): abort() is initiated only after the fprintf call has been
\* made, and whenever that call succeeded the complete line is in the stream
\* from then on.
C4_WriteBeforeAbort ==
  \A t \in Threads :
    pc[t] \in {"abort", "aborted"} =>
      /\ wrote[t] # "no"
      /\ wrote[t] = "ok" => HasOwnLine(t)

\* C4 witness: a thread is about to call abort() with its line written.
C4_Witness ==
  \E t \in Threads : pc[t] = "abort" /\ wrote[t] = "ok" /\ Prepared(t) /\ HasOwnLine(t)

\* C5: the filename field is the part of the path after its last separator,
\* forward slash or backslash, whichever comes last.
C5_BasenameAfterLastSeparator ==
  base_out # NoPath =>
    LET seps == {i \in 1..Len(path_in) : path_in[i] \in {"/", "\\"}}
        last == IF seps = {} THEN 0 ELSE CHOOSE i \in seps : \A j \in seps : j <= i
    IN  base_out = SubSeq(path_in, last + 1, Len(path_in))

C7_ReportsErrnoAtFailure ==
  \A t \in Threads :
    (wrote[t] = "ok" /\ Prepared(t)) =>
      \E i \in LinesBy(t) : stderr[i].text = DiagnosticOf(t, failErrno[t])

\* C8 (as stated): when all threads have failed checks and the process has
\* been aborted by handlers that prepared their records, at least one thread's
\* complete line, with its own fields, is in the stream.
C8_SomeDiagnosticAtEnd ==
  (proc = "aborted" /\ \A t \in Threads : Failed(t) /\ Prepared(t)) =>
    \E t \in Threads : HasOwnLine(t)

\* C8 (amended): when all threads have failed checks, every line a successful
\* write put in the stream is its thread's own (its file, line, condition,
\* code and message), and when the process is ended by the abort() of a thread
\* whose write succeeded, that thread's line is in the stream.
C8_OwnDiagnosticAtEnd ==
  (\A t \in Threads : Failed(t)) =>
    /\ \A t \in Threads : wrote[t] = "ok" => \A i \in LinesBy(t) : stderr[i].text = DiagnosticOf(t, errno[t])
    /\ \A t \in Threads :
         (proc = "aborted" /\ endedBy = t /\ wrote[t] = "ok") => HasOwnLine(t)

\* C8 witness: both threads wrote their lines before one of them aborted.
C8_Witness ==
  /\ proc = "aborted"
  /\ \A t \in Threads : wrote[t] = "ok" /\ Prepared(t) /\ HasOwnLine(t)
  /\ Len(stderr) = Cardinality(Threads)

\* C9: whatever its preparatory steps do, a handler that ended the process had
\* reached its diagnostic write.
C9_HandlerReachesWrite ==
  \A t \in Threads : (proc # "running" /\ endedBy = t) => wrote[t] # "no"

\* C10: a run of demo_contracts that has stopped in abort() had reached every
\* one of its statements and printed its closing line.
C10_DemoRunsToCompletion ==
  \A t \in Threads :
    (prog[t] = "demo" /\ proc = "aborted" /\ endedBy = t /\ Prepared(t)) =>
      /\ ip[t] > Len(DemoProgram)
      /\ \E i \in 1..Len(stdout) : stdout[i] = "DEMO COMPLETE."

====
